---- MODULE Spec2Model ----
(***************************************************************************)
(* Model of FuelTrackingBot (src/main.py): the per-user dialog state       *)
(* machine (user_states), the detail parsers of the guided flow, the       *)
(* record writers and the registry of known vehicles and generators.       *)
(*                                                                         *)
(* Conventions.                                                            *)
(*  - A text is a sequence of one-character strings.  Cyrillic and emoji   *)
(*    literals of the source are written in ASCII stand-ins (the button    *)
(*    labels, "otmena", the sheet-name markers "A" = "Авто" and            *)
(*    "G" = "Генератор"); only equality, lower-casing, digit runs and the  *)
(*    separators . and , of a text matter to the code.                     *)
(*  - A Python float is a fixed-point number counted in hundredths; the    *)
(*    inputs carry at most one fractional digit, so sums and one product   *)
(*    are exact.                                                           *)
(*  - A sheet cell is <<>> when blank and <<v>> when it holds a number.    *)
(*  - The timestamp and user-name columns of a row are not modelled.       *)
(*  - python-telegram-bot handles one update at a time (run() does not     *)
(*    enable concurrent updates), so one handler call is one action.       *)
(***************************************************************************)
EXTENDS Integers, Sequences, FiniteSets, TLC

\* ---------------------------------------------------------------- bounds
MaxRows == 1

\* the users who write to the bot
Users == {1, 2}

\* ----------------------------------------------------------------- texts
None == <<"None">>

Digits == {"0", "1", "2", "3", "4", "5", "6", "7", "8", "9"}

IsDigit(c) == c \in Digits

DigitVal(c) ==
    CASE c = "0" -> 0 [] c = "1" -> 1 [] c = "2" -> 2 [] c = "3" -> 3
      [] c = "4" -> 4 [] c = "5" -> 5 [] c = "6" -> 6 [] c = "7" -> 7
      [] c = "8" -> 8 [] c = "9" -> 9

DigitChar(d) ==
    CASE d = 0 -> "0" [] d = 1 -> "1" [] d = 2 -> "2" [] d = 3 -> "3"
      [] d = 4 -> "4" [] d = 5 -> "5" [] d = 6 -> "6" [] d = 7 -> "7"
      [] d = 8 -> "8" [] d = 9 -> "9"

\* str.lower() on the letters that occur in the modelled texts
LowerChar(c) ==
    CASE c = "C" -> "c" [] c = "A" -> "a" [] c = "N" -> "n"
      [] c = "E" -> "e" [] c = "L" -> "l" [] c = "O" -> "o"
      [] c = "T" -> "t" [] c = "M" -> "m"
      [] OTHER -> c

lower(t) == [i \in 1..Len(t) |-> LowerChar(t[i])]

\* str.replace(',', '.')
replace_comma(t) == [i \in 1..Len(t) |-> IF t[i] = "," THEN "." ELSE t[i]]

\* index of the first digit of t at or after position i, 0 when there is none
FirstDigitFrom(t, i) ==
    LET S == {k \in i..Len(t) : IsDigit(t[k])}
    IN  IF S = {} THEN 0 ELSE CHOOSE k \in S : \A m \in S : k <= m

\* last index of the digit run of t that starts at position k
RunEnd(t, k) ==
    CHOOSE j \in k..Len(t) :
        /\ \A m \in k..j : IsDigit(t[m])
        /\ (j = Len(t) \/ ~IsDigit(t[j + 1]))

\* end of a match of \d+(?:[.,]\d+)? that starts at the digit at position k
NumberEnd(t, k) ==
    LET e == RunEnd(t, k)
    IN  IF e + 2 <= Len(t) /\ t[e + 1] \in {".", ","} /\ IsDigit(t[e + 2])
        THEN RunEnd(t, e + 2)
        ELSE e

NoMatch == [ok |-> FALSE, g1 |-> <<>>, g2 |-> <<>>]

\* re.search(r'(\d+).*?(\d+<tail>)\s*', t, DOTALL): the leftmost match.
\* Group 1 is greedy; when no digit follows the first run, backtracking
\* gives the last digit of that run to group 2.
SearchTwoNumbers(t, withFraction) ==
    LET i == FirstDigitFrom(t, 1)
    IN  IF i = 0 THEN NoMatch
        ELSE LET j == RunEnd(t, i)
                 k == FirstDigitFrom(t, j + 1)
             IN  IF k # 0
                 THEN [ok |-> TRUE,
                       g1 |-> SubSeq(t, i, j),
                       g2 |-> SubSeq(t, k, IF withFraction THEN NumberEnd(t, k)
                                                            ELSE RunEnd(t, k))]
                 ELSE IF j > i
                      THEN [ok |-> TRUE,
                            g1 |-> SubSeq(t, i, j - 1),
                            g2 |-> SubSeq(t, j, j)]
                      ELSE NoMatch

\* line 801: re.search(r'(\d+).*?(\d+(?:[.,]\d+)?)\s*', text or "")
purchase_details_search(t) == SearchTwoNumbers(t, TRUE)

\* line 859: re.search(r'(\d+).*?(\d+)\s*', text)
refuel_details_search(t) == SearchTwoNumbers(t, FALSE)

\* line 910: re.findall(r'\d+(?:[.,]\d+)?', text)
RECURSIVE FindAllFrom(_, _)
FindAllFrom(t, i) ==
    LET k == FirstDigitFrom(t, i)
    IN  IF k = 0 THEN <<>>
        ELSE LET e == NumberEnd(t, k)
             IN  <<SubSeq(t, k, e)>> \o FindAllFrom(t, e + 1)

findall_numbers(t) == FindAllFrom(t, 1)

\* ------------------------------------------------------------- numbers
AllDigits(s) == Len(s) > 0 /\ \A i \in 1..Len(s) : IsDigit(s[i])

RECURSIVE DigitsToNat(_)
DigitsToNat(s) ==
    IF Len(s) = 0 THEN 0
    ELSE 10 * DigitsToNat(SubSeq(s, 1, Len(s) - 1)) + DigitVal(s[Len(s)])

RECURSIVE NatToDigits(_)
NatToDigits(n) ==
    IF n < 10 THEN <<DigitChar(n)>>
    ELSE NatToDigits(n \div 10) \o <<DigitChar(n % 10)>>

DotPos(s) ==
    LET S == {k \in 1..Len(s) : s[k] = "."}
    IN  IF S = {} THEN 0 ELSE CHOOSE k \in S : \A m \in S : k <= m

\* float(s) succeeds on digits with an optional .digits part
\* (a comma raises ValueError)
float_ok(s) ==
    LET d == DotPos(s)
    IN  IF d = 0 THEN AllDigits(s)
        ELSE /\ AllDigits(SubSeq(s, 1, d - 1))
             /\ AllDigits(SubSeq(s, d + 1, Len(s)))

\* float(s), in hundredths
float(s) ==
    LET d == DotPos(s)
    IN  IF d = 0 THEN 100 * DigitsToNat(s)
        ELSE LET frac == SubSeq(s, d + 1, Len(s))
                 f2 == SubSeq(frac \o <<"0", "0">>, 1, 2)
             IN  100 * DigitsToNat(SubSeq(s, 1, d - 1)) + DigitsToNat(f2)

\* int(s) succeeds on digits only
int_ok(s) == AllDigits(s)

int(s) == DigitsToNat(s)

\* str(x) of a float x: the shortest repr, always with a fractional part
str_float(x) ==
    LET whole == NatToDigits(x \div 100)
        f == x % 100
    IN  whole \o <<".">> \o
        (IF f % 10 = 0 THEN <<DigitChar(f \div 10)>>
         ELSE <<DigitChar(f \div 10), DigitChar(f % 10)>>)

\* str(n) of an int n
str_int(n) == NatToDigits(n)

\* the bug of adding where the code multiplies
FloatAdd(a, b) == a + b

\* product of two floats, in hundredths
float_mul(a, b) == (a * b) \div 100

\* ------------------------------------------------- texts of the events
\* the keyboard labels of start() (lines 166-171), in ASCII stand-ins
BTN_PURCHASE == <<"b", "P">>
BTN_REFUEL == <<"b", "R">>
BTN_GENERATOR == <<"b", "G">>
BTN_BALANCE == <<"b", "B">>
BTN_GENERATOR_INFO == <<"b", "I">>
BTN_HISTORY == <<"b", "H">>
BTN_TEMPLATES == <<"b", "T">>

ActionOfButton(t) ==
    CASE t = BTN_PURCHASE -> "purchase"
      [] t = BTN_REFUEL -> "refuel"
      [] t = BTN_GENERATOR -> "generator"
      [] t = BTN_BALANCE -> "balance"
      [] t = BTN_GENERATOR_INFO -> "generator_info"
      [] t = BTN_HISTORY -> "history"
      [] OTHER -> "none"

ActionButtons ==
    {BTN_PURCHASE, BTN_REFUEL, BTN_GENERATOR, BTN_BALANCE,
     BTN_GENERATOR_INFO, BTN_HISTORY}

\* ["отмена", "cancel", "/cancel"] (lines 426 and 777)
CancelTokens ==
    {<<"o", "t", "m", "e", "n", "a">>,
     <<"c", "a", "n", "c", "e", "l">>,
     <<"/", "c", "a", "n", "c", "e", "l">>}

is_cancel(t) == lower(t) \in CancelTokens

\* the identifiers of the sheets: vehicle 5, generator 7
N5 == <<"5">>
N7 == <<"7">>

T_200_58 == <<"2", "0", "0", " ", "5", "8">>
T_0_58 == <<"0", " ", "5", "8">>
T_200 == <<"2", "0", "0">>
T_abc == <<"a", "b", "c">>
T_200_58_255 == <<"2", "0", "0", " ", "5", "8", " ", "2", "5", "5">>
T_0_58_255 == <<"0", " ", "5", "8", " ", "2", "5", "5">>
T_200_0_255 == <<"2", "0", "0", " ", "0", " ", "2", "5", "5">>
T_Cancel == <<"C", "a", "n", "c", "e", "l">>
T_otmena == <<"o", "t", "m", "e", "n", "a">>
T_slash_cancel == <<"/", "c", "a", "n", "c", "e", "l">>

\* the texts users send: labels, cancellation tokens, identifiers (known
\* and unknown) and details (valid, zero volume, one number, no number,
\* three numbers)
Texts ==
    ActionButtons \cup
    {BTN_TEMPLATES, T_Cancel, T_otmena, T_slash_cancel,
     N5, N7, T_200_58, T_0_58, T_200, T_abc, T_200_58_255}

\* the captions of the photo and document messages
Captions ==
    {None, BTN_PURCHASE, T_Cancel, T_slash_cancel, N5,
     T_200_58, T_0_58, T_200, T_abc, T_200_58_255, T_0_58_255}

\* filters.COMMAND: a text message that starts with a bot command
IsCommandText(t) == Len(t) > 0 /\ t[1] = "/"

\* ---------------------------------------------------------- the backend
\* f"Авто {car_number}" and f"Генератор {car_number}"
WorksheetName(marker, number) == <<marker, " ">> \o number

A5 == WorksheetName("A", N5)
A7 == WorksheetName("A", N7)
G7 == WorksheetName("G", N7)
G5 == WorksheetName("G", N5)

\* the order in which spreadsheet.worksheets() lists the sheets
SheetOrder == <<A5, G7, A7, G5>>

\* the sheets of the spreadsheet when the bot starts
InitialTitles == {A5, G7}

Titles == {SheetOrder[i] : i \in 1..Len(SheetOrder)}

\* the sheets an administrator adds and deletes while the bot runs
VolatileTitles == {A7}

NoSheet == [exists |-> FALSE, header |-> FALSE, rows |-> <<>>]
EmptySheet == [exists |-> TRUE, header |-> FALSE, rows |-> <<>>]
FreshSheet == [exists |-> TRUE, header |-> TRUE, rows |-> <<>>]

Blank == <<>>
Cell(v) == <<v>>

\* record.get(key, 0) or 0
or_zero(c) == IF c = Blank THEN 0 ELSE c[1]

NoPhoto == "None"
FilePath == "file_path"
Formula == "formula"

\* ---------------------------------------------------------------- state
VARIABLES user_states, supported_cars, supported_generators, sheets, sent

vars == <<user_states, supported_cars, supported_generators, sheets, sent>>

\* user_id not in self.user_states
NoState == [action |-> "none", step |-> "none", car_number |-> None]

\* a session that starts in the details step
NewStateDetails(a) == [action |-> a, step |-> "volume", car_number |-> None]

\* {"action": a, "step": "car_number"} (lines 433-468)
NewState(a) == [action |-> a, step |-> "car_number", car_number |-> None]

Member(x, list) == \E i \in 1..Len(list) : list[i] = x

validate_generator_number(n) == Member(n, supported_generators)

validate_car_number(n) == Member(n, supported_cars)

\* len(worksheet.get_all_values())
get_all_values_len(sheet) == (IF sheet.header THEN 1 ELSE 0) + Len(sheet.rows)

\* worksheet.get_all_records(): the rows under the header row
get_all_records(sheet) == sheet.rows

setup_worksheet_headers(sheet) == [sheet EXCEPT !.header = TRUE]

\* a write that puts the row in the place of the rows of the sheet
AppendRowReplace(sh, title, row) == [sh EXCEPT ![title].rows = <<row>>]

get_or_create_worksheet(sh, title) ==
    IF sh[title].exists
    THEN IF get_all_values_len(sh[title]) = 0
         THEN [sh EXCEPT ![title] = setup_worksheet_headers(@)]
         ELSE sh
    ELSE [sh EXCEPT ![title] = FreshSheet]

append_row(sh, title, row) == [sh EXCEPT ![title].rows = Append(@, row)]

\* an update that takes r for the place of the row among the records
UpdateCellAbsolute(sh, title, r, value) ==
    IF r \in 1..Len(sh[title].rows)
    THEN [sh EXCEPT ![title].rows[r].photo = value]
    ELSE sh

\* worksheet.update_cell(r, photo_col, formula): r counts the header row
update_cell(sh, title, r, value) ==
    LET i == r - (IF sh[title].header THEN 1 ELSE 0)
    IN  IF i \in 1..Len(sh[title].rows)
        THEN [sh EXCEPT ![title].rows[i].photo = value]
        ELSE sh

TotalRows(sh) ==
    Len(sh[A5].rows) + Len(sh[A7].rows)
        + Len(sh[G7].rows) + Len(sh[G5].rows)

\* the titles with a digit in them: re.search(r'\d+', sheet_name)
sheet_number(title) ==
    LET k == FirstDigitFrom(title, 1)
    IN  IF k = 0 THEN None ELSE SubSeq(title, k, RunEnd(title, k))

Contains(title, marker) == \E i \in 1..Len(title) : title[i] = marker

RECURSIVE NumbersOf(_, _, _)
NumbersOf(sh, kind, i) ==
    IF i > Len(SheetOrder) THEN <<>>
    ELSE LET t == SheetOrder[i]
             isCar == Contains(t, "A")
             isGen == ~isCar /\ Contains(t, "G")
             hit == /\ sh[t].exists
                    /\ sheet_number(t) # None
                    /\ IF kind = "A" THEN isCar ELSE isGen
         IN  (IF hit THEN <<sheet_number(t)>> ELSE <<>>)
                 \o NumbersOf(sh, kind, i + 1)

\* load_vehicles_and_generators (lines 95-110)
load_cars(sh) == NumbersOf(sh, "A", 1)

load_generators(sh) == NumbersOf(sh, "G", 1)

InitSheets ==
    [t \in Titles |-> IF t \in InitialTitles THEN FreshSheet ELSE NoSheet]

Init ==
    /\ user_states = [u \in Users |-> NoState]
    /\ sheets = InitSheets
    /\ supported_cars = load_cars(InitSheets)
    /\ supported_generators = load_generators(InitSheets)
    /\ sent = <<>>

\* ------------------------------------------------------------ handlers
\* A handler is an operator from the handler state st = [us, sh, out]
\* (user_states, the sheets, the replies sent so far by this update) to
\* the handler state it leaves.  fail names the backend call that raises:
\* "none", "open" (opening the worksheet), "append" (append_row; the read
\* of a query), "cell" (a call that follows append_row).
FailPoints == {"none", "open", "append", "cell"}

Reply(st, msg, arg) ==
    [st EXCEPT !.out = Append(@, [msg |-> msg, arg |-> arg])]

\* the bug of clearing the whole map: self.user_states.clear()
DelStateAll(st, u) == [st EXCEPT !.us = [x \in Users |-> NoState]]

\* del self.user_states[user_id], guarded by "in" where the code guards it
DelState(st, u) == [st EXCEPT !.us[u] = NoState]

\* the ledger with the highest odometer reading kept as the last one
RECURSIVE BalanceStatsMaxMileage(_)
BalanceStatsMaxMileage(records) ==
    IF Len(records) = 0
    THEN [total_purchased |-> 0, total_consumed |-> 0,
          total_cost |-> 0, last_mileage |-> 0]
    ELSE LET acc == BalanceStatsMaxMileage(
                        SubSeq(records, 1, Len(records) - 1))
             record == records[Len(records)]
         IN  IF record.op = "Zakupka"
             THEN [acc EXCEPT
                     !.total_purchased = @ + or_zero(record.volume),
                     !.total_cost = @ + float_mul(or_zero(record.volume),
                                                  or_zero(record.price))]
             ELSE IF record.op = "Zapravka"
             THEN [acc EXCEPT
                     !.total_consumed = @ + or_zero(record.volume),
                     !.last_mileage =
                         IF or_zero(record.mileage) > @
                         THEN or_zero(record.mileage) ELSE @]
             ELSE acc

\* the ledger with the prices added up without their volumes
RECURSIVE BalanceStatsUnweighted(_)
BalanceStatsUnweighted(records) ==
    IF Len(records) = 0
    THEN [total_purchased |-> 0, total_consumed |-> 0,
          total_cost |-> 0, last_mileage |-> 0]
    ELSE LET acc == BalanceStatsUnweighted(
                        SubSeq(records, 1, Len(records) - 1))
             record == records[Len(records)]
         IN  IF record.op = "Zakupka"
             THEN [acc EXCEPT
                     !.total_purchased = @ + or_zero(record.volume),
                     !.total_cost = @ + or_zero(record.price)]
             ELSE IF record.op = "Zapravka"
             THEN [acc EXCEPT
                     !.total_consumed = @ + or_zero(record.volume),
                     !.last_mileage = or_zero(record.mileage)]
             ELSE acc

\* the ledger of balance() (lines 321-337) over the records of a vehicle
RECURSIVE balance_stats(_)
balance_stats(records) ==
    IF Len(records) = 0
    THEN [total_purchased |-> 0, total_consumed |-> 0,
          total_cost |-> 0, last_mileage |-> 0]
    ELSE LET acc == balance_stats(SubSeq(records, 1, Len(records) - 1))
             record == records[Len(records)]
         IN  IF record.op = "Zakupka"
             THEN [acc EXCEPT
                     !.total_purchased = @ + or_zero(record.volume),
                     !.total_cost = @ + float_mul(or_zero(record.volume),
                                                  or_zero(record.price))]
             ELSE IF record.op = "Zapravka"
             THEN [acc EXCEPT
                     !.total_consumed = @ + or_zero(record.volume),
                     !.last_mileage = or_zero(record.mileage)]
             ELSE acc

\* records[-5:] (lines 268 and 382)
HistoryWindow == 5

\* records[:5], the first records of the log
LastRecordsFirst(records) ==
    IF Len(records) <= HistoryWindow THEN records
    ELSE SubSeq(records, 1, HistoryWindow)

last_records(records) ==
    IF Len(records) <= HistoryWindow THEN records
    ELSE SubSeq(records, Len(records) - HistoryWindow + 1, Len(records))

reversed(list) == [i \in 1..Len(list) |-> list[Len(list) + 1 - i]]

RECURSIVE SumCells(_, _)
SumCells(records, field) ==
    IF Len(records) = 0 THEN 0
    ELSE SumCells(SubSeq(records, 1, Len(records) - 1), field)
            + or_zero(records[Len(records)][field])

\* history() (lines 242-298); args is context.args
history(st, args, fail) ==
    IF Len(args) = 0 THEN Reply(st, "usage_history", <<>>)
    ELSE IF ~validate_car_number(args[1])
    THEN Reply(st, "unknown_car", supported_cars)
    ELSE IF fail = "open" THEN Reply(st, "history_error", <<>>)
    ELSE LET title == WorksheetName("A", args[1])
             sh1 == get_or_create_worksheet(st.sh, title)
             st1 == [st EXCEPT !.sh = sh1]
             records == get_all_records(sh1[title])
         IN  IF fail # "none" THEN Reply(st1, "history_error", <<>>)
             ELSE IF Len(records) = 0 THEN Reply(st1, "no_data", <<>>)
             ELSE Reply(st1, "history", reversed(last_records(records)))

\* balance() with the volumes of the refuels added to the balance
BalanceSum(st, args, fail) ==
    IF Len(args) = 0 THEN Reply(st, "usage_balance", <<>>)
    ELSE IF ~validate_car_number(args[1])
    THEN Reply(st, "unknown_car", supported_cars)
    ELSE IF fail = "open" THEN Reply(st, "balance_error", <<>>)
    ELSE LET title == WorksheetName("A", args[1])
             sh1 == get_or_create_worksheet(st.sh, title)
             st1 == [st EXCEPT !.sh = sh1]
             s == balance_stats(get_all_records(sh1[title]))
             avg_price == IF s.total_purchased > 0
                          THEN (100 * s.total_cost) \div s.total_purchased
                          ELSE 0
         IN  IF fail # "none" THEN Reply(st1, "balance_error", <<>>)
             ELSE Reply(st1, "balance",
                        <<s.total_purchased, s.total_consumed,
                          s.total_purchased + s.total_consumed,
                          avg_price, s.last_mileage>>)

\* balance() (lines 300-354)
balance(st, args, fail) ==
    IF Len(args) = 0 THEN Reply(st, "usage_balance", <<>>)
    ELSE IF ~validate_car_number(args[1])
    THEN Reply(st, "unknown_car", supported_cars)
    ELSE IF fail = "open" THEN Reply(st, "balance_error", <<>>)
    ELSE LET title == WorksheetName("A", args[1])
             sh1 == get_or_create_worksheet(st.sh, title)
             st1 == [st EXCEPT !.sh = sh1]
             s == balance_stats(get_all_records(sh1[title]))
             avg_price == IF s.total_purchased > 0
                          THEN (100 * s.total_cost) \div s.total_purchased
                          ELSE 0
         IN  IF fail # "none" THEN Reply(st1, "balance_error", <<>>)
             ELSE Reply(st1, "balance",
                        <<s.total_purchased, s.total_consumed,
                          s.total_purchased - s.total_consumed,
                          avg_price, s.last_mileage>>)

\* generator_info() (lines 356-418)
generator_info(st, args, fail) ==
    IF Len(args) = 0 THEN Reply(st, "usage_generator", <<>>)
    ELSE IF ~validate_generator_number(args[1])
    THEN Reply(st, "unknown_generator", supported_generators)
    ELSE IF fail = "open" THEN Reply(st, "generator_error", <<>>)
    ELSE LET title == WorksheetName("G", args[1])
             sh1 == get_or_create_worksheet(st.sh, title)
             st1 == [st EXCEPT !.sh = sh1]
             records == get_all_records(sh1[title])
             last == last_records(records)
         IN  IF fail # "none" THEN Reply(st1, "generator_error", <<>>)
             ELSE IF Len(records) = 0 THEN Reply(st1, "no_data", <<>>)
             ELSE Reply(st1, "generator_info",
                        <<SumCells(records, "volume"),
                          SumCells(records, "total_cost"),
                          or_zero(last[Len(last)].hours),
                          reversed(last)>>)

\* start() (lines 163-196)
start(st) == Reply(st, "welcome", supported_cars \o supported_generators)

\* templates() (lines 198-240)
templates(st) == Reply(st, "templates", <<>>)

VehicleRow(op, volume, price, total_cost, mileage, photo) ==
    [op |-> op, volume |-> volume, price |-> price,
     total_cost |-> total_cost, mileage |-> mileage, photo |-> photo]

GeneratorRow(volume, price, total_cost, hours, photo) ==
    [volume |-> volume, price |-> price, total_cost |-> total_cost,
     hours |-> hours, photo |-> photo]

\* a write that takes the appended row back when the cell update fails
WriteRowRollback(sh, title, row, fail) ==
    LET sh1 == get_or_create_worksheet(sh, title)
        sh2 == append_row(sh1, title, row)
        last_row == get_all_values_len(sh2[title])
    IN  CASE fail = "open" -> sh
          [] fail = "append" -> sh1
          [] fail = "cell" -> sh1
          [] OTHER -> update_cell(sh2, title, last_row, Formula)

\* lines 552-558, 647-659, 737-743: append_row, then the photo cell of the
\* last row becomes the formula; the sheets after the call that raises
write_row(sh, title, row, fail) ==
    LET sh1 == get_or_create_worksheet(sh, title)
        sh2 == append_row(sh1, title, row)
        last_row == get_all_values_len(sh2[title])
    IN  CASE fail = "open" -> sh
          [] fail = "append" -> sh1
          [] fail = "cell" -> sh2
          [] OTHER -> update_cell(sh2, title, last_row, Formula)

\* handle_purchase without the check of the registry (lines 518-523)
HandlePurchaseUnvalidated(st, u, match, photo_url, fail) ==
    IF photo_url = NoPhoto THEN Reply(st, "photo_required", <<>>)
    ELSE LET volume == float(match.volume)
             price == float(replace_comma(match.price))
             total_cost == float_mul(volume, price)
             title == WorksheetName("A", match.car_number)
             row == VehicleRow("Zakupka", Cell(volume), Cell(price),
                               Cell(total_cost), Blank, photo_url)
             st1 == [st EXCEPT !.sh = write_row(st.sh, title, row, fail)]
         IN  IF fail # "none" THEN Reply(st1, "save_error", <<>>)
             ELSE DelState(Reply(st1, "purchase_ok",
                                 <<volume, price, total_cost>>), u)

\* handle_purchase (lines 507-573); match is the object built at 831-837
handle_purchase(st, u, match, photo_url, fail) ==
    IF photo_url = NoPhoto THEN Reply(st, "photo_required", <<>>)
    ELSE IF ~validate_car_number(match.car_number)
    THEN Reply(st, "unknown_car", supported_cars)
    ELSE LET volume == float(match.volume)
             price == float(replace_comma(match.price))
             total_cost == float_mul(volume, price)
             title == WorksheetName("A", match.car_number)
             row == VehicleRow("Zakupka", Cell(volume), Cell(price),
                               Cell(total_cost), Blank, photo_url)
             st1 == [st EXCEPT !.sh = write_row(st.sh, title, row, fail)]
         IN  IF fail # "none" THEN Reply(st1, "save_error", <<>>)
             ELSE DelState(Reply(st1, "purchase_ok",
                                 <<volume, price, total_cost>>), u)

\* handle_refuel with the balance of the reply read before the append
HandleRefuelStaleBalance(st, u, match, photo_url, fail) ==
    IF photo_url = NoPhoto THEN Reply(st, "photo_required", <<>>)
    ELSE IF ~validate_car_number(match.car_number)
    THEN Reply(st, "unknown_car", supported_cars)
    ELSE IF ~float_ok(match.volume) \/ ~int_ok(match.mileage)
    THEN Reply(st, "refuel_format_error", <<>>)
    ELSE LET volume == float(match.volume)
             mileage == int(match.mileage)
             title == WorksheetName("A", match.car_number)
             row == VehicleRow("Zapravka", Cell(volume), Blank, Blank,
                               Cell(mileage), photo_url)
             sh1 == write_row(st.sh, title, row, fail)
             st1 == [st EXCEPT !.sh = sh1]
             s == balance_stats(get_all_records(st.sh[title]))
         IN  IF volume <= 0 THEN Reply(st, "volume_error", <<>>)
             ELSE IF mileage < 0 THEN Reply(st, "mileage_error", <<>>)
             ELSE IF fail # "none" THEN Reply(st1, "save_error", <<>>)
             ELSE Reply(st1, "refuel_ok",
                        <<volume, mileage,
                          s.total_purchased - s.total_consumed>>)

\* handle_refuel without the check of the volume (lines 618-620)
HandleRefuelUnchecked(st, u, match, photo_url, fail) ==
    IF photo_url = NoPhoto THEN Reply(st, "photo_required", <<>>)
    ELSE IF ~validate_car_number(match.car_number)
    THEN Reply(st, "unknown_car", supported_cars)
    ELSE LET volume == float(match.volume)
             mileage == int(match.mileage)
             title == WorksheetName("A", match.car_number)
             row == VehicleRow("Zapravka", Cell(volume), Blank, Blank,
                               Cell(mileage), photo_url)
             sh1 == write_row(st.sh, title, row, fail)
             st1 == [st EXCEPT !.sh = sh1]
         IN  IF fail # "none" THEN Reply(st1, "save_error", <<>>)
             ELSE Reply(st1, "refuel_ok", <<volume, mileage, 0>>)

\* handle_refuel (lines 596-678)
handle_refuel(st, u, match, photo_url, fail) ==
    IF photo_url = NoPhoto THEN Reply(st, "photo_required", <<>>)
    ELSE IF ~validate_car_number(match.car_number)
    THEN Reply(st, "unknown_car", supported_cars)
    ELSE IF ~float_ok(match.volume) \/ ~int_ok(match.mileage)
    THEN Reply(st, "refuel_format_error", <<>>)
    ELSE LET volume == float(match.volume)
             mileage == int(match.mileage)
             title == WorksheetName("A", match.car_number)
             row == VehicleRow("Zapravka", Cell(volume), Blank, Blank,
                               Cell(mileage), photo_url)
             sh1 == write_row(st.sh, title, row, fail)
             st1 == [st EXCEPT !.sh = sh1]
             s == balance_stats(get_all_records(sh1[title]))
         IN  IF volume <= 0 THEN Reply(st, "volume_error", <<>>)
             ELSE IF mileage < 0 THEN Reply(st, "mileage_error", <<>>)
             ELSE IF fail # "none" THEN Reply(st1, "save_error", <<>>)
             ELSE Reply(st1, "refuel_ok",
                        <<volume, mileage,
                          s.total_purchased - s.total_consumed>>)

\* handle_generator_refuel (lines 680-765)
handle_generator_refuel(st, u, match, photo_url, fail) ==
    IF photo_url = NoPhoto THEN Reply(st, "photo_required", <<>>)
    ELSE IF ~validate_generator_number(match.car_number)
    THEN Reply(st, "unknown_generator", supported_generators)
    ELSE IF \/ ~float_ok(match.volume)
            \/ ~float_ok(replace_comma(match.price))
            \/ ~int_ok(match.hours)
    THEN Reply(st, "generator_format_error", <<>>)
    ELSE LET volume == float(match.volume)
             price == float(replace_comma(match.price))
             hours == int(match.hours)
             total_cost == float_mul(volume, price)
             title == WorksheetName("G", match.car_number)
             row == GeneratorRow(Cell(volume), Cell(price), Cell(total_cost),
                                 Cell(hours), photo_url)
             st1 == [st EXCEPT !.sh = write_row(st.sh, title, row, fail)]
         IN  IF volume <= 0 THEN Reply(st, "volume_error", <<>>)
             ELSE IF price <= 0 THEN Reply(st, "price_error", <<>>)
             ELSE IF hours < 0 THEN Reply(st, "hours_error", <<>>)
             ELSE IF fail # "none" THEN Reply(st1, "save_error", <<>>)
             ELSE Reply(st1, "generator_ok",
                        <<volume, price, total_cost, hours>>)

\* the except clause without the removal of the session
StepErrorKeep(st, u) == Reply(st, "step_error", <<>>)

\* the except clause of handle_step_input (lines 1000-1004)
step_error(st, u) == Reply(DelState(st, u), "step_error", <<>>)

\* the bug of accepting an identifier the registry does not hold
CarNumberStepUnvalidated(st, u, text, known, unknown_msg, list) ==
    Reply([st EXCEPT !.us[u].car_number = text,
                     !.us[u].step = "volume"],
          "prompt_details", <<>>)

\* the bug of storing the identifier before it is validated
CarNumberStepEager(st, u, text, known, unknown_msg, list) ==
    IF ~known
    THEN Reply([st EXCEPT !.us[u].car_number = text], unknown_msg, list)
    ELSE Reply([st EXCEPT !.us[u].car_number = text,
                          !.us[u].step = "volume"],
               "prompt_details", <<>>)

\* the identifier step of the three transactions
\* (lines 785-798, 844-857, 895-908)
car_number_step(st, u, text, known, unknown_msg, list) ==
    IF ~known THEN Reply(st, unknown_msg, list)
    ELSE Reply([st EXCEPT !.us[u].car_number = text,
                          !.us[u].step = "volume"],
               "prompt_details", <<>>)

\* update.message.photo / update.message.document and get_file
\* (lines 814-828); file_ok is FALSE when get_file raises
purchase_photo_url(message, file_ok) ==
    IF message.att \in {"photo", "document"} /\ file_ok
    THEN FilePath ELSE NoPhoto

\* the bug of taking a reference although get_file raised
PhotoUrlUnchecked(message, file_ok) ==
    IF message.att = "photo" THEN FilePath ELSE NoPhoto

\* lines 872-879 and 920-927: only update.message.photo is looked at
photo_url_of(message, file_ok) ==
    IF message.att = "photo" /\ file_ok THEN FilePath ELSE NoPhoto

\* the details step of the purchase searching the text itself, as the
\* two other details steps do: a missing text raises
PurchaseDetailsStepRaise(st, u, message, text, file_ok, fail) ==
    IF text = None THEN step_error(st, u)
    ELSE LET match == purchase_details_search(text)
             volume == float(match.g1)
             price == float(replace_comma(match.g2))
             match_obj == [car_number |-> st.us[u].car_number,
                           volume |-> str_float(volume),
                           price |-> str_float(price)]
         IN  IF ~match.ok THEN Reply(st, "format_error", <<>>)
             ELSE DelState(handle_purchase(
                               st, u, match_obj,
                               purchase_photo_url(message, file_ok), fail), u)

\* the details step without lines 840-841: the session is removed by
\* handle_purchase only, after a success
PurchaseDetailsStepKeep(st, u, message, text, file_ok, fail) ==
    LET match == purchase_details_search(IF text = None THEN <<>> ELSE text)
        volume == float(match.g1)
        price == float(replace_comma(match.g2))
        match_obj == [car_number |-> st.us[u].car_number,
                      volume |-> str_float(volume),
                      price |-> str_float(price)]
    IN  IF ~match.ok THEN Reply(st, "format_error", <<>>)
        ELSE handle_purchase(st, u, match_obj,
                             purchase_photo_url(message, file_ok), fail)

\* lines 799-841
purchase_details_step(st, u, message, text, file_ok, fail) ==
    LET match == purchase_details_search(IF text = None THEN <<>> ELSE text)
        volume == float(match.g1)
        price == float(replace_comma(match.g2))
        match_obj == [car_number |-> st.us[u].car_number,
                      volume |-> str_float(volume),
                      price |-> str_float(price)]
    IN  IF ~match.ok THEN Reply(st, "format_error", <<>>)
        ELSE DelState(handle_purchase(st, u, match_obj,
                                      purchase_photo_url(message, file_ok),
                                      fail), u)

\* lines 858-892; re.search on None raises TypeError
refuel_details_step(st, u, message, text, file_ok, fail) ==
    IF text = None THEN step_error(st, u)
    ELSE LET match == refuel_details_search(text)
             volume == float(match.g1)
             mileage == int(match.g2)
             match_obj == [car_number |-> st.us[u].car_number,
                           volume |-> str_float(volume),
                           mileage |-> str_int(mileage)]
         IN  IF ~match.ok THEN Reply(st, "format_error", <<>>)
             ELSE DelState(handle_refuel(st, u, match_obj,
                                         photo_url_of(message, file_ok),
                                         fail), u)

\* lines 909-954; re.findall on None raises TypeError
generator_details_step(st, u, message, text, file_ok, fail) ==
    IF text = None THEN step_error(st, u)
    ELSE LET numbers == findall_numbers(text)
         IN  IF Len(numbers) < 3 THEN Reply(st, "format_error", <<>>)
             ELSE IF \/ ~float_ok(numbers[1])
                     \/ ~float_ok(replace_comma(numbers[2]))
                     \/ ~int_ok(numbers[3])
             THEN Reply(st, "number_format_error", <<>>)
             ELSE LET volume == float(numbers[1])
                      price == float(replace_comma(numbers[2]))
                      hours == int(numbers[3])
                      match_obj == [car_number |-> st.us[u].car_number,
                                    volume |-> str_float(volume),
                                    price |-> str_float(price),
                                    hours |-> str_int(hours)]
                  IN  DelState(handle_generator_refuel(
                                   st, u, match_obj,
                                   photo_url_of(message, file_ok), fail), u)

\* handle_step_input (lines 767-1004)
handle_step_input(st, u, message, file_ok, fail) ==
    LET text == IF message.text # None THEN message.text ELSE message.caption
        state == st.us[u]
    IN  IF state = NoState THEN st
        ELSE IF text # None /\ is_cancel(text)
        THEN Reply(DelState(st, u), "cancelled", <<>>)
        ELSE IF state.action = "purchase" /\ state.step = "car_number"
        THEN car_number_step(st, u, text, validate_car_number(text),
                             "unknown_car", supported_cars)
        ELSE IF state.action = "purchase" /\ state.step = "volume"
        THEN purchase_details_step(st, u, message, text, file_ok, fail)
        ELSE IF state.action = "refuel" /\ state.step = "car_number"
        THEN car_number_step(st, u, text, validate_car_number(text),
                             "unknown_car", supported_cars)
        ELSE IF state.action = "refuel" /\ state.step = "volume"
        THEN refuel_details_step(st, u, message, text, file_ok, fail)
        ELSE IF state.action = "generator" /\ state.step = "car_number"
        THEN car_number_step(st, u, text, validate_generator_number(text),
                             "unknown_generator", supported_generators)
        ELSE IF state.action = "generator" /\ state.step = "volume"
        THEN generator_details_step(st, u, message, text, file_ok, fail)
        ELSE IF state.action = "history" /\ state.step = "car_number"
        THEN IF ~validate_car_number(text)
             THEN Reply(st, "unknown_car", supported_cars)
             ELSE DelState(history(st, <<text>>, fail), u)
        ELSE IF state.action = "balance" /\ state.step = "car_number"
        THEN IF ~validate_car_number(text)
             THEN Reply(st, "unknown_car", supported_cars)
             ELSE DelState(balance(st, <<text>>, fail), u)
        ELSE IF state.action = "generator_info" /\ state.step = "car_number"
        THEN IF ~validate_generator_number(text)
             THEN Reply(st, "unknown_generator", supported_generators)
             ELSE DelState(generator_info(st, <<text>>, fail), u)
        ELSE st

\* handle_text_input (lines 481-497)
handle_text_input(st, u, message, file_ok, fail) ==
    IF st.us[u] # NoState
    THEN handle_step_input(st, u, message, file_ok, fail)
    ELSE Reply(st, "unrecognized", <<>>)

\* the bug of updating the dictionary of the session in place, which keeps
\* what an earlier flow stored in it
SelectActionKeep(st, u, a) ==
    Reply([st EXCEPT !.us[u] = [action |-> a, step |-> "car_number",
                                car_number |-> st.us[u].car_number]],
          "prompt_number", <<>>)

\* the branches of the six action buttons (lines 432-472)
select_action(st, u, a) ==
    Reply([st EXCEPT !.us[u] = NewState(a)], "prompt_number", <<>>)

\* handle_button_press (lines 420-479)
handle_button_press(st, u, message, file_ok, fail) ==
    LET text == IF message.text # None THEN message.text ELSE <<>>
    IN  IF is_cancel(text)
        THEN IF st.us[u] # NoState
             THEN Reply(DelState(st, u), "cancelled", <<>>)
             ELSE st
        ELSE IF text \in ActionButtons
        THEN select_action(st, u, ActionOfButton(text))
        ELSE IF text = BTN_TEMPLATES THEN templates(st)
        ELSE handle_text_input(st, u, message, file_ok, fail)

\* ------------------------------------------------------------- actions
Before == [us |-> user_states, sh |-> sheets, out |-> <<>>]

\* the update is handled to its end; the log of the model holds at most
\* MaxRows rows
Handled(st) ==
    /\ TotalRows(st.sh) <= MaxRows
    /\ user_states' = st.us
    /\ sheets' = st.sh
    /\ sent' = st.out
    /\ UNCHANGED <<supported_cars, supported_generators>>

\* run() (lines 1054-1077): what the application does with an update.
\* MessageHandler(filters.TEXT & ~filters.COMMAND, handle_button_press):
\* a text that starts with a command has no message handler, and a command
\* without a CommandHandler ("/cancel") is dropped
TextUpdate(st, u, t, fail) ==
    IF IsCommandText(t) THEN st
    ELSE handle_button_press(
             st, u, [text |-> t, caption |-> None, att |-> "none"], TRUE, fail)

\* MessageHandler(filters.PHOTO, ...) and
\* MessageHandler(filters.Document.IMAGE, ...): the text is the caption
PhotoUpdate(st, u, c, att, file_ok, fail) ==
    handle_button_press(
        st, u, [text |-> None, caption |-> c, att |-> att], file_ok, fail)

\* CommandHandler("start" | "templates" | "balance" | "generator" |
\* "history")
CommandUpdate(st, u, cmd, args, fail) ==
    CASE cmd = "start" -> start(st)
      [] cmd = "templates" -> templates(st)
      [] cmd = "balance" -> balance(st, args, fail)
      [] cmd = "generator" -> generator_info(st, args, fail)
      [] cmd = "history" -> history(st, args, fail)

TextMessage(u, t, fail) == Handled(TextUpdate(Before, u, t, fail))

PhotoMessage(u, c, att, file_ok, fail) ==
    Handled(PhotoUpdate(Before, u, c, att, file_ok, fail))

Command(u, cmd, args, fail) ==
    Handled(CommandUpdate(Before, u, cmd, args, fail))

\* the commands users send, <<command, arguments>>
CommandInputs ==
    {<<"start", <<>>>>, <<"templates", <<>>>>}
        \cup ({"balance", "generator", "history"}
                  \X {<<>>, <<N5>>, <<N7>>, <<T_200>>})

\* the sheets after check_sheets_updates has looked at the first n sheets
\* (lines 1018-1034): an empty vehicle or generator sheet gets its headers
RefreshedSheets(sh, n) ==
    [t \in Titles |->
        IF /\ \E i \in 1..n : SheetOrder[i] = t
           /\ sh[t].exists
           /\ sheet_number(t) # None
           /\ (Contains(t, "A") \/ Contains(t, "G"))
           /\ get_all_values_len(sh[t]) = 0
        THEN setup_worksheet_headers(sh[t])
        ELSE sh[t]]

SameSet(a, b) ==
    {a[i] : i \in 1..Len(a)} = {b[i] : i \in 1..Len(b)}

\* the list extended by the current numbers instead of replaced by them
RegistryUpdateExtend(list, current) ==
    IF SameSet(current, list) THEN list ELSE list \o current

\* lines 1037-1043: the list is replaced when the set of the current
\* numbers differs from the set of the list
registry_update(list, current) ==
    IF SameSet(current, list) THEN list ELSE current

\* a run that empties the lists of the registry before it reads the
\* sheets, as load_vehicles_and_generators does (lines 98-99)
SheetsUpdateInPlace(reg, failAt) ==
    LET n == Len(SheetOrder)
    IN  IF failAt = 0 THEN reg
        ELSE IF failAt <= n
        THEN [reg EXCEPT !.sh = RefreshedSheets(reg.sh, failAt - 1),
                         !.cars = <<>>, !.generators = <<>>]
        ELSE [sh |-> RefreshedSheets(reg.sh, n),
              cars |-> registry_update(reg.cars, load_cars(reg.sh)),
              generators |-> registry_update(reg.generators,
                                             load_generators(reg.sh))]

\* the backend and the registry [sh, cars, generators] after a run of
\* check_sheets_updates (lines 1006-1048) on reg.  failAt = 0:
\* worksheets() raises; failAt = k: the backend raises at the k-th sheet;
\* failAt beyond the last sheet: no failure
sheets_update(reg, failAt) ==
    LET n == Len(SheetOrder)
    IN  IF failAt = 0 THEN reg
        ELSE IF failAt <= n
        THEN [reg EXCEPT !.sh = RefreshedSheets(reg.sh, failAt - 1)]
        ELSE [sh |-> RefreshedSheets(reg.sh, n),
              cars |-> registry_update(reg.cars, load_cars(reg.sh)),
              generators |-> registry_update(reg.generators,
                                             load_generators(reg.sh))]

\* the backend and the registry of the state
Registry ==
    [sh |-> sheets, cars |-> supported_cars,
     generators |-> supported_generators]

\* a run whose two assignments are apart: the step ends with the new
\* list of the vehicles and the old list of the generators
CheckSheetsUpdatesSplit(failAt) ==
    LET reg == sheets_update(Registry, failAt)
    IN  /\ failAt \in 1..Len(SheetOrder) => sheets[SheetOrder[failAt]].exists
        /\ sheets' = reg.sh
        /\ supported_cars' = reg.cars
        /\ supported_generators' = supported_generators
        /\ UNCHANGED <<sent, user_states>>

\* check_sheets_updates (lines 1006-1048); the backend can raise at a
\* sheet that exists
check_sheets_updates(failAt) ==
    LET reg == sheets_update(Registry, failAt)
    IN  /\ failAt \in 1..Len(SheetOrder) => sheets[SheetOrder[failAt]].exists
        /\ sheets' = reg.sh
        /\ supported_cars' = reg.cars
        /\ supported_generators' = reg.generators
        /\ UNCHANGED <<sent, user_states>>

\* an administrator deletes a sheet of the spreadsheet
AdminDeleteSheet(t) ==
    /\ sheets[t].exists
    /\ sheets' = [sheets EXCEPT ![t] = NoSheet]
    /\ UNCHANGED <<user_states, supported_cars, supported_generators, sent>>

\* an administrator adds an empty sheet to the spreadsheet
AdminAddSheet(t) ==
    /\ ~sheets[t].exists
    /\ sheets' = [sheets EXCEPT ![t] = EmptySheet]
    /\ UNCHANGED <<user_states, supported_cars, supported_generators, sent>>

\* the updates of the users in US, with the backend failing at a point
\* of FP
Updates(US, FP) ==
    \/ \E u \in US, t \in Texts, fail \in FP : TextMessage(u, t, fail)
    \/ \E u \in US, c \in Captions, att \in {"photo", "document"},
          file_ok \in BOOLEAN, fail \in FP :
           PhotoMessage(u, c, att, file_ok, fail)
    \/ \E u \in US, ci \in CommandInputs, fail \in FP :
           Command(u, ci[1], ci[2], fail)

Refresh == \E failAt \in 0..(Len(SheetOrder) + 1) : check_sheets_updates(failAt)

\* two users and a backend that answers every call
SpecFailPoints == {"none"}

Next ==
    \/ Updates(Users, SpecFailPoints)
    \/ Refresh

Spec == Init /\ [][Next]_vars

\* one user; the backend fails at any point
NextBackend ==
    \/ Updates({1}, FailPoints)
    \/ Refresh

SpecBackend == Init /\ [][NextBackend]_vars

\* one user and an administrator who adds and deletes sheets
NextRegistry ==
    \/ Updates({1}, {"none"})
    \/ Refresh
    \/ \E t \in VolatileTitles : AdminDeleteSheet(t)
    \/ \E t \in VolatileTitles : AdminAddSheet(t)

SpecRegistry == Init /\ [][NextRegistry]_vars

\* --------------------------------------------------------------- claims
\* a session that differs from s
AltSession(s) == IF s = NoState THEN NewState("purchase") ELSE NoState

\* r is what an update of y leaves and r2 what the same update leaves
\* when the session of x is another one: the session of x is as before in
\* both, and nothing else depends on it
Isolated(x, y, other, r, r2) ==
    /\ r.us[x] = user_states[x]
    /\ r2 = [r EXCEPT !.us[x] = other.us[x]]

\* C1: session isolation.  For two distinct users x and y and every update
\* of y (text, photo or document with any caption, command), handling the
\* update leaves the session of x as it was, and the sessions of y, the
\* sheets and the replies are the same whatever the session of x is.
SessionIsolation ==
    \A y \in Users, fail \in SpecFailPoints : \A x \in Users \ {y} :
        LET other == [Before EXCEPT !.us[x] = AltSession(user_states[x])]
        IN  /\ \A t \in Texts :
                   Isolated(x, y, other, TextUpdate(Before, y, t, fail),
                            TextUpdate(other, y, t, fail))
            /\ \A c \in Captions, att \in {"photo", "document"},
                  file_ok \in BOOLEAN :
                   Isolated(x, y, other,
                            PhotoUpdate(Before, y, c, att, file_ok, fail),
                            PhotoUpdate(other, y, c, att, file_ok, fail))
            /\ \A ci \in CommandInputs :
                   Isolated(x, y, other,
                            CommandUpdate(Before, y, ci[1], ci[2], fail),
                            CommandUpdate(other, y, ci[1], ci[2], fail))

\* user 2 has cancelled a session while user 1 waits for details
SessionIsolationWitness ==
    /\ user_states[1] = [action |-> "refuel", step |-> "volume",
                         car_number |-> N5]
    /\ user_states[2] = NoState
    /\ sent = <<[msg |-> "cancelled", arg |-> <<>>]>>


\* the rows of every sheet
RowsOf(sh) == [t \in Titles |-> sh[t].rows]

\* a text that is neither a command, a cancellation token nor a button
PlainText(t) ==
    /\ ~IsCommandText(t)
    /\ ~is_cancel(t)
    /\ t \notin ActionButtons \cup {BTN_TEMPLATES}

Transactions == {"purchase", "refuel", "generator"}

VehicleActions == {"purchase", "refuel", "balance", "history"}

\* the sheet of the asset of a session in the details step
SessionSheet(state) ==
    WorksheetName(IF state.action = "generator" THEN "G" ELSE "A",
                  state.car_number)

\* C2: cancellation.  For every user with a session, a message whose text
\* is a cancellation token in any case (sent as a text or as the caption
\* of a photo) removes the session, is answered by the acknowledgement
\* and leaves every sheet as it was.
CancellationRemovesSession ==
    \A u \in Users, fail \in FailPoints :
        user_states[u] # NoState =>
            LET Cancelled(r) ==
                    /\ r.us = [user_states EXCEPT ![u] = NoState]
                    /\ r.out = <<[msg |-> "cancelled", arg |-> <<>>]>>
                    /\ r.sh = sheets
            IN  /\ \A t \in Texts :
                       is_cancel(t) => Cancelled(TextUpdate(Before, u, t, fail))
                /\ \A c \in Captions \ {None} :
                       is_cancel(c) =>
                           Cancelled(PhotoUpdate(Before, u, c, "photo",
                                                 TRUE, fail))

\* C3: one session per user, replaced by a trigger phrase.  In every state
\* a text message that is one of the six action labels leaves the user
\* with the session {action of the label, step car_number, no asset},
\* whatever the session was; the sessions of the others and every sheet
\* are as before.
TriggerReplacesSession ==
    \A u \in Users, t \in ActionButtons, fail \in FailPoints :
        LET r == TextUpdate(Before, u, t, fail)
        IN  /\ r.us = [user_states EXCEPT
                         ![u] = [action |-> ActionOfButton(t),
                                 step |-> "car_number",
                                 car_number |-> None]]
            /\ ActionOfButton(t) # "none"
            /\ r.sh = sheets
            /\ r.out = <<[msg |-> "prompt_number", arg |-> <<>>]>>

\* a row was written in a guided flow, and the user has selected the
\* history action since
TriggerReplacesSessionWitness ==
    /\ user_states[1] = [action |-> "history", step |-> "car_number",
                         car_number |-> None]
    /\ sent = <<[msg |-> "prompt_number", arg |-> <<>>]>>
    /\ TotalRows(sheets) = 1

\* what the identifier step does with the text of a message
IdentifierStepOutcome(u, text, r) ==
    LET a == user_states[u].action
        list == IF a \in VehicleActions THEN supported_cars
                ELSE supported_generators
        msg == IF a \in VehicleActions THEN "unknown_car"
               ELSE "unknown_generator"
    IN  IF \E i \in 1..Len(list) : list[i] = text
        THEN a \in Transactions =>
                 /\ r.us = [user_states EXCEPT
                              ![u] = [action |-> a, step |-> "volume",
                                      car_number |-> text]]
                 /\ r.sh = sheets
        ELSE /\ r.out = <<[msg |-> msg, arg |-> list]>>
             /\ r.us = user_states
             /\ r.sh = sheets

\* C4: unknown identifier.  In the identifier step of any action, a
\* message whose text is not in the registry list of the kind the action
\* expects is answered by the error that lists the known identifiers of
\* that kind, and the sessions and the sheets stay as they were; a known
\* identifier moves a transaction to the details step with the asset
\* stored.
UnknownIdentifierKeepsSession ==
    \A u \in Users, fail \in FailPoints :
        user_states[u].step = "car_number" =>
            /\ \A t \in Texts :
                   PlainText(t) =>
                       IdentifierStepOutcome(u, t,
                                             TextUpdate(Before, u, t, fail))
            /\ \A c \in Captions, att \in {"photo", "document"},
                  file_ok \in BOOLEAN :
                   (c = None \/ ~is_cancel(c)) =>
                       IdentifierStepOutcome(
                           u, c, PhotoUpdate(Before, u, c, att, file_ok, fail))

\* the registry knows a second vehicle by now, and the error lists both
UnknownIdentifierWitness ==
    /\ user_states[1] = [action |-> "purchase", step |-> "car_number",
                         car_number |-> None]
    /\ supported_cars = <<N5, N7>>
    /\ sent = <<[msg |-> "unknown_car", arg |-> <<N5, N7>>]>>


OkReplies == {"purchase_ok", "refuel_ok", "generator_ok"}

\* the rows r.sh holds are those of the sheets and one more, the last row
\* of the sheet title
AppendsOneRowTo(r, title) ==
    /\ Len(r.sh[title].rows) = Len(sheets[title].rows) + 1
    /\ RowsOf(r.sh) =
           [RowsOf(sheets) EXCEPT
              ![title] = Append(@, r.sh[title].rows[Len(r.sh[title].rows)])]

\* 200 l at 58 with total 11600 (in hundredths), and the rows of the
\* refuel and the generator refuel of the same numbers
Purchase_200_58 ==
    [op |-> "Zakupka", volume |-> <<20000>>, price |-> <<5800>>,
     total_cost |-> <<1160000>>, mileage |-> <<>>, photo |-> Formula]

Refuel_200_58 ==
    [op |-> "Zapravka", volume |-> <<20000>>, price |-> <<>>,
     total_cost |-> <<>>, mileage |-> <<58>>, photo |-> Formula]

Generator_200_58_255 ==
    [volume |-> <<20000>>, price |-> <<5800>>, total_cost |-> <<1160000>>,
     hours |-> <<255>>, photo |-> Formula]

\* C5: successful guided transaction.  When a user in the details step of
\* a transaction sends details with a photo and the reply is the success
\* message, exactly one row was appended, to the sheet of the asset and
\* of the kind of the action, no other row changed, the user has no
\* session, and a purchase row has total_cost = volume * price; the
\* details "200 58" (and "200 58 255" for a generator) with a fetched
\* photo and a working backend do succeed and append the rows
\* 200, 58, 11600 / 200, 58 km / 200, 58, 11600, 255.
GuidedTransactionAppendsOneRow ==
    \A u \in Users :
        LET state == user_states[u]
            title == SessionSheet(state)
        IN  state.step = "volume" =>
              /\ \A c \in Captions, att \in {"photo", "document"},
                    file_ok \in BOOLEAN, fail \in FailPoints :
                     LET r == PhotoUpdate(Before, u, c, att, file_ok, fail)
                         row == r.sh[title].rows[Len(r.sh[title].rows)]
                     IN  (r.out # <<>> /\ r.out[1].msg \in OkReplies) =>
                           /\ AppendsOneRowTo(r, title)
                           /\ r.us = [user_states EXCEPT ![u] = NoState]
                           /\ state.action # "refuel" =>
                                  100 * row.total_cost[1]
                                      = row.volume[1] * row.price[1]
              /\ LET c == IF state.action = "generator" THEN T_200_58_255
                          ELSE T_200_58
                     r == PhotoUpdate(Before, u, c, "photo", TRUE, "none")
                     row == r.sh[title].rows[Len(r.sh[title].rows)]
                 IN  /\ Len(r.out) = 1
                     /\ r.out[1].msg \in OkReplies
                     /\ row = CASE state.action = "purchase" -> Purchase_200_58
                                [] state.action = "refuel" -> Refuel_200_58
                                [] state.action = "generator" ->
                                       Generator_200_58_255

\* the purchase of scenario 1 is in the sheet and the user is idle
GuidedTransactionWitness ==
    /\ sheets[A5].rows = <<Purchase_200_58>>
    /\ user_states[1] = NoState
    /\ sent = <<[msg |-> "purchase_ok", arg |-> <<20000, 5800, 1160000>>]>>

\* valid details of the action of a session
ValidDetails(state) ==
    IF state.action = "generator" THEN T_200_58_255 ELSE T_200_58

\* C6: missing photo keeps the session.  When a user in the details step
\* sends valid details without a photo, the reply is the evidence-required
\* message, no sheet changes and the session is the same as before.
MissingPhotoKeepsSession ==
    \A u \in Users, fail \in FailPoints :
        user_states[u].step = "volume" =>
            LET r == TextUpdate(Before, u, ValidDetails(user_states[u]), fail)
            IN  /\ r.out = <<[msg |-> "photo_required", arg |-> <<>>]>>
                /\ r.sh = sheets
                /\ r.us = user_states

\* C7: no row without evidence.  Every row of every sheet has a photo
\* reference in its photo cell, and an update that carries no photo
\* reference (a text message, or a photo or document whose file could not
\* be fetched) leaves the rows of every sheet as they were.
NoRowWithoutEvidence ==
    /\ \A t \in Titles : \A i \in 1..Len(sheets[t].rows) :
           sheets[t].rows[i].photo \in {FilePath, Formula}
    /\ \A u \in Users, fail \in FailPoints :
           /\ \A t \in Texts :
                  RowsOf(TextUpdate(Before, u, t, fail).sh) = RowsOf(sheets)
           /\ \A c \in Captions, att \in {"photo", "document"} :
                  RowsOf(PhotoUpdate(Before, u, c, att, FALSE, fail).sh)
                      = RowsOf(sheets)

\* a submission without a photo was refused while the log holds a row
NoRowWithoutEvidenceWitness ==
    /\ TotalRows(sheets) = 1
    /\ sent = <<[msg |-> "photo_required", arg |-> <<>>]>>

\* C8: validation order.  The photo is checked first: a details message
\* without a photo is answered by the evidence-required message whatever
\* its text is (also when the text does not parse).
PhotoCheckedFirst ==
    \A u \in Users, fail \in FailPoints, t \in Texts :
        (user_states[u].step = "volume" /\ PlainText(t)) =>
            TextUpdate(Before, u, t, fail).out
                = <<[msg |-> "photo_required", arg |-> <<>>]>>

\* C9: invalid details keep the session.  When a user in the details step
\* sends, with a photo, a text without numbers or a text with volume 0,
\* the session stays as it was, a reply is sent and no row is written.
InvalidDetailsKeepSession ==
    \A u \in Users, c \in {T_abc, T_0_58} :
        user_states[u].step = "volume" =>
            LET r == PhotoUpdate(Before, u, c, "photo", TRUE, "none")
            IN  /\ r.us = user_states
                /\ r.out # <<>>
                /\ RowsOf(r.sh) = RowsOf(sheets)

\* C10: purchase domain constraints.  Every purchase row of a vehicle
\* sheet has volume > 0 and price > 0.
PurchaseRowsPositive ==
    \A t \in {A5, A7} : \A i \in 1..Len(sheets[t].rows) :
        LET row == sheets[t].rows[i]
        IN  row.op = "Zakupka" => (row.volume[1] > 0 /\ row.price[1] > 0)


\* the outcome r of an update is the single reply msg, and every row is
\* as it was
RejectedWith(r, msg) ==
    /\ r.out = <<[msg |-> msg, arg |-> <<>>]>>
    /\ RowsOf(r.sh) = RowsOf(sheets)

\* C11: refuel domain constraints.  Every refuel row of a vehicle sheet
\* has volume > 0 and mileage >= 0, every row of a generator sheet has
\* volume > 0, price > 0, hours >= 0 and total_cost = volume * price; a
\* refuel with volume 0 and a generator refuel with volume 0 or price 0,
\* sent with a photo, are answered by the message of the constraint and
\* append no row.
RefuelRowsValid ==
    /\ \A t \in {A5, A7} : \A i \in 1..Len(sheets[t].rows) :
           LET row == sheets[t].rows[i]
           IN  row.op = "Zapravka" =>
                   (row.volume[1] > 0 /\ row.mileage[1] >= 0)
    /\ \A t \in {G5, G7} : \A i \in 1..Len(sheets[t].rows) :
           LET row == sheets[t].rows[i]
           IN  /\ row.volume[1] > 0
               /\ row.price[1] > 0
               /\ row.hours[1] >= 0
               /\ 100 * row.total_cost[1] = row.volume[1] * row.price[1]
    /\ \A u \in Users, fail \in FailPoints :
           LET Sent(c) == PhotoUpdate(Before, u, c, "photo", TRUE, fail)
           IN  /\ (user_states[u].step = "volume"
                      /\ user_states[u].action = "refuel") =>
                       /\ RejectedWith(Sent(T_0_58), "volume_error")
                       /\ RejectedWith(Sent(T_0_58_255), "volume_error")
               /\ (user_states[u].step = "volume"
                      /\ user_states[u].action = "generator") =>
                       /\ RejectedWith(Sent(T_0_58_255), "volume_error")
                       /\ RejectedWith(Sent(T_200_0_255), "price_error")

\* a generator refuel is in the log and a later submission with volume 0
\* was answered by the message of the volume
RefuelRowsValidWitness ==
    /\ sheets[G7].rows = <<Generator_200_58_255>>
    /\ sent = <<[msg |-> "volume_error", arg |-> <<>>]>>


\* the free-form refuel "5 / Zapravka 30 litrov. Probeg: 125000 km" of a
\* known vehicle
T_free_refuel ==
    <<"5", "\n", "Z", "a", "p", "r", "a", "v", "k", "a", " ", "3", "0", " ",
      "l", "i", "t", "r", "o", "v", ".", " ", "P", "r", "o", "b", "e", "g",
      ":", " ", "1", "2", "5", "0", "0", "0", " ", "k", "m">>

Refuel_30_125000 ==
    [op |-> "Zapravka", volume |-> <<3000>>, price |-> <<>>,
     total_cost |-> <<>>, mileage |-> <<125000>>, photo |-> Formula]

\* C12: free-form path.  When a user without a session sends the
\* free-form refuel of the known vehicle 5 with a photo, a refuel row with
\* volume 30 and mileage 125000 is appended to the sheet of the vehicle,
\* and no session is created.
FreeFormRecorded ==
    \A u \in Users :
        user_states[u] = NoState =>
            LET r == PhotoUpdate(Before, u, T_free_refuel, "photo", TRUE,
                                 "none")
            IN  /\ r.sh[A5].rows = Append(sheets[A5].rows, Refuel_30_125000)
                /\ r.us = user_states


Queries == {"balance", "history", "generator_info"}

\* the registry list a session's identifier is looked up in
RegistryOf(action) ==
    IF action \in VehicleActions THEN supported_cars
    ELSE supported_generators

\* the replies of a query that has read the log, and of one that could not
QueryReplies(fail) ==
    IF fail = "none" THEN {"balance", "history", "generator_info", "no_data"}
    ELSE {"balance_error", "history_error", "generator_error"}

\* r is the outcome of a query of u answered in the same update
QueryAnswered(u, r, fail) ==
    /\ r.us = [user_states EXCEPT ![u] = NoState]
    /\ Len(r.out) = 1
    /\ r.out[1].msg \in QueryReplies(fail)
    /\ RowsOf(r.sh) = RowsOf(sheets)

\* C13: query actions never reach the details step.  No session of a
\* query action (balance, history, generator_info) is in the details
\* step, and when a user in the identifier step of a query sends a known
\* identifier (as a text or as the caption of a photo) the reply of the
\* query is sent in the same update and the user has no session
\* afterwards, also when the log is empty (the reply is then the no-data
\* message or the balance of zeros) and when the backend fails.
QueriesSkipDetails ==
    \A u \in Users :
        LET state == user_states[u]
            list == RegistryOf(state.action)
        IN  state.action \in Queries =>
              /\ state.step = "car_number"
              /\ \A i \in 1..Len(list), fail \in FailPoints :
                     LET r == TextUpdate(Before, u, list[i], fail)
                         p == PhotoUpdate(Before, u, list[i], "photo", TRUE,
                                          fail)
                         title == WorksheetName(
                                      IF state.action = "generator_info"
                                      THEN "G" ELSE "A", list[i])
                     IN  /\ QueryAnswered(u, r, fail)
                         /\ p = r
                         /\ (fail = "none" /\ sheets[title].rows = <<>>) =>
                                r.out[1].msg =
                                    IF state.action = "balance" THEN "balance"
                                    ELSE "no_data"

\* the balance of the log of one purchase was reported and the user is
\* idle
QueriesSkipDetailsWitness ==
    /\ sheets[A5].rows = <<Purchase_200_58>>
    /\ user_states[1] = NoState
    /\ sent = <<[msg |-> "balance",
                 arg |-> <<20000, 0, 20000, 5800, 0>>]>>


\* the try-again message of the handler of an action
FailureReply(action) ==
    CASE action \in Transactions -> "save_error"
      [] action = "balance" -> "balance_error"
      [] action = "history" -> "history_error"
      [] action = "generator_info" -> "generator_error"

\* C14: backend failure discards the session.  When a backend call
\* (opening the worksheet, the append or the read, the cell update) fails
\* while valid details with a photo or the known identifier of a query
\* are handled, the only reply is the try-again message of the handler
\* and the user has no session afterwards, for all six actions.
BackendFailureDiscardsSession ==
    \A u \in Users, fail \in FailPoints \ {"none"} :
        LET state == user_states[u]
            list == RegistryOf(state.action)
            Failed(r) ==
                /\ r.us = [user_states EXCEPT ![u] = NoState]
                /\ r.out = <<[msg |-> FailureReply(state.action),
                              arg |-> <<>>]>>
        IN  /\ state.step = "volume" =>
                  Failed(PhotoUpdate(Before, u, ValidDetails(state), "photo",
                                     TRUE, fail))
            /\ (state.step = "car_number" /\ state.action \in Queries) =>
                  \A i \in 1..Len(list) :
                      Failed(TextUpdate(Before, u, list[i], fail))

\* the cell update failed after the append: the row keeps the file path,
\* the user was told to try again and has no session
BackendFailureWitness ==
    /\ sheets[A5].rows = <<[Purchase_200_58 EXCEPT !.photo = FilePath]>>
    /\ user_states[1] = NoState
    /\ sent = <<[msg |-> "save_error", arg |-> <<>>]>>


\* C15: unexpected errors are contained.  A photo without a caption sent
\* in the details step of a refuel or of a generator refuel makes the
\* parse raise (the text is None); the error is caught in the step
\* handler: the only reply is the generic failure message, the session of
\* the user is removed, every other session and every sheet is as before,
\* and the next updates are handled as usual: a label starts a new
\* session of the user, and an update of another user has the outcome it
\* would have had without the error.
UnexpectedErrorContained ==
    \A u \in Users, att \in {"photo", "document"}, file_ok \in BOOLEAN,
       fail \in SpecFailPoints :
        (user_states[u].step = "volume"
            /\ user_states[u].action \in {"refuel", "generator"}) =>
            LET r == PhotoUpdate(Before, u, None, att, file_ok, fail)
                after == [r EXCEPT !.out = <<>>]
            IN  /\ r.us = [user_states EXCEPT ![u] = NoState]
                /\ r.out = <<[msg |-> "step_error", arg |-> <<>>]>>
                /\ r.sh = sheets
                /\ TextUpdate(after, u, BTN_REFUEL, fail)
                       = select_action(after, u, "refuel")
                /\ \A y \in Users \ {u}, t \in Texts :
                       LET a == TextUpdate(after, y, t, fail)
                           b == TextUpdate(Before, y, t, fail)
                       IN  a = [b EXCEPT !.us[u] = NoState]

\* the step of user 1 has raised while user 2 is in a session
UnexpectedErrorWitness ==
    /\ sent = <<[msg |-> "step_error", arg |-> <<>>]>>
    /\ user_states[1] = NoState
    /\ user_states[2].step = "volume"


\* the sheets new hold the rows of the sheets old, in their places and
\* with their cells, the photo cell excepted, and then rows added at the
\* end
AppendOnly(old, new) ==
    \A t \in Titles :
        /\ old[t].exists => new[t].exists
        /\ Len(new[t].rows) >= Len(old[t].rows)
        /\ \A i \in 1..Len(old[t].rows) :
               [new[t].rows[i] EXCEPT !.photo = old[t].rows[i].photo]
                   = old[t].rows[i]

\* C16: append-only log.  Whatever update is handled in a state (a text,
\* a photo or a document with any caption, a command, with the backend
\* failing at any point or not) and whatever the registry refresh does,
\* every sheet keeps its rows in their order and with their cells, the
\* photo cell excepted, and rows are only added at the end.
AppendOnlyLog ==
    /\ \A u \in Users, fail \in FailPoints :
           /\ \A t \in Texts :
                  AppendOnly(sheets, TextUpdate(Before, u, t, fail).sh)
           /\ \A c \in Captions, att \in {"photo", "document"},
                 file_ok \in BOOLEAN :
                  AppendOnly(sheets,
                             PhotoUpdate(Before, u, c, att, file_ok, fail).sh)
           /\ \A ci \in CommandInputs :
                  AppendOnly(sheets,
                             CommandUpdate(Before, u, ci[1], ci[2], fail).sh)
    /\ \A n \in 0..Len(SheetOrder) :
           AppendOnly(sheets, RefreshedSheets(sheets, n))

\* the purchase is in the log after a later query of the same vehicle
AppendOnlyLogWitness ==
    /\ sheets[A5].rows = <<Purchase_200_58>>
    /\ sent = <<[msg |-> "history", arg |-> <<Purchase_200_58>>]>>


\* ------------------------------------------------------- the ledger
\* The queries are functions of the log of an asset.  SpecLedger starts
\* with a log of up to MaxLog records in the sheet of vehicle 5 or of
\* generator 7, in every order of the records, and answers the queries.
MaxLog == 6

Purchase_100_60 ==
    [op |-> "Zakupka", volume |-> <<10000>>, price |-> <<6000>>,
     total_cost |-> <<600000>>, mileage |-> <<>>, photo |-> Formula]

Generator_100_60_300 ==
    [volume |-> <<10000>>, price |-> <<6000>>, total_cost |-> <<600000>>,
     hours |-> <<300>>, photo |-> Formula]

VehicleRecords ==
    {Purchase_200_58, Purchase_100_60, Refuel_30_125000, Refuel_200_58}

GeneratorRecords == {Generator_200_58_255, Generator_100_60_300}

Logs(records) == UNION {[1..n -> records] : n \in 0..MaxLog}

InitLedger ==
    /\ user_states = [u \in Users |-> NoState]
    /\ supported_cars = load_cars(InitSheets)
    /\ supported_generators = load_generators(InitSheets)
    /\ sent = <<>>
    /\ \/ \E log \in Logs(VehicleRecords) :
              sheets = [InitSheets EXCEPT ![A5].rows = log]
       \/ \E log \in Logs(GeneratorRecords) :
              sheets = [InitSheets EXCEPT ![G7].rows = log]

\* the update is handled to its end
Answered(st) ==
    /\ user_states' = st.us
    /\ sheets' = st.sh
    /\ sent' = st.out
    /\ UNCHANGED <<supported_cars, supported_generators>>

\* /balance 5, /history 5, /generator 7
LedgerInputs ==
    {<<"balance", <<N5>>>>, <<"history", <<N5>>>>, <<"generator", <<N7>>>>}

NextLedger ==
    \E ci \in LedgerInputs :
        Answered(CommandUpdate(Before, 1, ci[1], ci[2], "none"))

SpecLedger == InitLedger /\ [][NextLedger]_vars

\* the sum of f[i] over the indices i of the set I
RECURSIVE SumOver(_, _)
SumOver(I, f) ==
    IF I = {} THEN 0
    ELSE LET i == CHOOSE k \in I : TRUE
         IN  f[i] + SumOver(I \ {i}, f)

\* the sum of the volumes of the records of the log with the operation op
VolumeTotal(log, op) ==
    SumOver({i \in 1..Len(log) : log[i].op = op},
            [i \in 1..Len(log) |-> log[i].volume[1]])

\* the log with the records i and i + 1 in each other's place
Swap(log, i) ==
    [k \in 1..Len(log) |->
        IF k = i THEN log[i + 1] ELSE IF k = i + 1 THEN log[i] ELSE log[k]]

\* what /balance 5 reports for the log:
\* <<purchased, consumed, balance, average price, last mileage>>
BalanceReport(log) ==
    CommandUpdate([Before EXCEPT !.sh[A5].rows = log], 1, "balance", <<N5>>,
                  "none").out[1].arg

\* C17: ledger balance.  The balance the balance query reports for the
\* log of a vehicle is the sum of the volumes of its purchase records
\* minus the sum of the volumes of its refuel records, and it is the same
\* for the log with two neighbouring records in each other's place (every
\* order of the records is a log of the specification, so the balance is
\* the same for every order of the same records).
LedgerBalance ==
    LET log == sheets[A5].rows
        report == BalanceReport(log)
    IN  /\ report[1] = VolumeTotal(log, "Zakupka")
        /\ report[2] = VolumeTotal(log, "Zapravka")
        /\ report[3] = VolumeTotal(log, "Zakupka")
                           - VolumeTotal(log, "Zapravka")
        /\ \A i \in 1..(Len(log) - 1) :
               BalanceReport(Swap(log, i))[3] = report[3]

\* a refuel between two purchases: 300 l purchased, 30 l consumed, the
\* balance of 270 l was reported
LedgerBalanceWitness ==
    /\ sheets[A5].rows
           = <<Purchase_200_58, Refuel_30_125000, Purchase_100_60>>
    /\ sent # <<>>
    /\ sent[1].msg = "balance"
    /\ sent[1].arg[3] = 27000


\* the sum of volume * price over the purchase records of the log
CostTotal(log) ==
    SumOver({i \in 1..Len(log) : log[i].op = "Zakupka"},
            [i \in 1..Len(log) |->
                IF log[i].op = "Zakupka"
                THEN float_mul(log[i].volume[1], log[i].price[1])
                ELSE 0])

\* C18: average price.  For every log of a vehicle the balance query
\* answers with the statistics (no division by zero stops it), and the
\* average price it reports is the sum of volume * price over the
\* purchase records divided by the purchased total when that total is
\* above 0, and 0 when it is 0 (no record, or refuels only).
AveragePrice ==
    LET log == sheets[A5].rows
        reply == CommandUpdate(Before, 1, "balance", <<N5>>, "none").out
        purchased == VolumeTotal(log, "Zakupka")
    IN  /\ Len(reply) = 1
        /\ reply[1].msg = "balance"
        /\ reply[1].arg[4] =
               IF purchased > 0 THEN (100 * CostTotal(log)) \div purchased
               ELSE 0
        /\ (\A i \in 1..Len(log) : log[i].op = "Zapravka") =>
               reply[1].arg[4] = 0

\* 200 l at 58 and 100 l at 60: the average 17600 / 300 = 58.66 was
\* reported
AveragePriceWitness ==
    /\ sheets[A5].rows = <<Purchase_200_58, Purchase_100_60>>
    /\ sent # <<>>
    /\ sent[1].msg = "balance"
    /\ sent[1].arg[4] = 5866


\* the last min(n, 5) records of a log of n records, the last one first
LastFiveReversed(log) ==
    LET n == Len(log)
        m == IF n < 5 THEN n ELSE 5
    IN  [i \in 1..m |-> log[n + 1 - i]]

\* C19: history window.  For a log of n records the history query of a
\* vehicle and the listing of the generator query hold min(n, 5) records:
\* the last min(n, 5) records of the log, the most recent first.  For the
\* empty log the reply is the no-data message, with no record.
HistoryWindowed ==
    LET log == sheets[A5].rows
        glog == sheets[G7].rows
        h == CommandUpdate(Before, 1, "history", <<N5>>, "none").out
        g == CommandUpdate(Before, 1, "generator", <<N7>>, "none").out
    IN  /\ Len(h) = 1
        /\ Len(g) = 1
        /\ IF log = <<>> THEN h[1] = [msg |-> "no_data", arg |-> <<>>]
           ELSE /\ h[1].msg = "history"
                /\ h[1].arg = LastFiveReversed(log)
                /\ Len(h[1].arg) = (IF Len(log) < 5 THEN Len(log) ELSE 5)
        /\ IF glog = <<>> THEN g[1] = [msg |-> "no_data", arg |-> <<>>]
           ELSE /\ g[1].msg = "generator_info"
                /\ g[1].arg[4] = LastFiveReversed(glog)

\* a log of six records: the history held the last five, the last first
HistoryWindowedWitness ==
    /\ sheets[A5].rows
           = <<Purchase_200_58, Purchase_100_60, Refuel_30_125000,
               Purchase_200_58, Refuel_30_125000, Purchase_100_60>>
    /\ sent = <<[msg |-> "history",
                 arg |-> <<Purchase_100_60, Refuel_30_125000,
                           Purchase_200_58, Refuel_30_125000,
                           Purchase_100_60>>]>>


\* C20: registry refresh is idempotent.  After a run of the refresh that
\* completes, a second run on the same backend, whether it completes or
\* the backend raises at any point of it, leaves the list of the vehicles
\* and the list of the generators as the first run left them (and the
\* sheets too).
RefreshIdempotent ==
    LET first == sheets_update(Registry, Len(SheetOrder) + 1)
    IN  \A failAt \in 0..(Len(SheetOrder) + 1) :
            LET second == sheets_update(first, failAt)
            IN  /\ second.cars = first.cars
                /\ second.generators = first.generators
                /\ second.sh = first.sh

\* the refresh has found the sheet of vehicle 7, which the administrator
\* added, and has given it its headers
RefreshIdempotentWitness ==
    /\ supported_cars = <<N5, N7>>
    /\ sheets[A7].exists
    /\ sheets[A7].header
    /\ sheets[A7].rows = <<>>


\* ----------------------------------------------------- the registry
\* SpecRefresh: an administrator adds and deletes any sheet, the timed
\* refresh runs (and fails at any point), and a user asks for the lists
\* of the registry with /start.
NextRefresh ==
    \/ Refresh
    \/ \E t \in Titles : AdminDeleteSheet(t)
    \/ \E t \in Titles : AdminAddSheet(t)
    \/ Command(1, "start", <<>>, "none")

SpecRefresh == Init /\ [][NextRefresh]_vars

\* C21: registry refresh failure keeps the snapshot.  A run of the timed
\* refresh in which the backend raises (at the listing of the sheets, or
\* at any sheet, where the sheet is read and given its headers) leaves the
\* list of the vehicles and the list of the generators as they were
\* before the run, sends nothing to a user and changes no session.
RefreshFailureKeepsSnapshot ==
    [][\A failAt \in 0..Len(SheetOrder) :
           check_sheets_updates(failAt) =>
               /\ supported_cars' = supported_cars
               /\ supported_generators' = supported_generators
               /\ sent' = sent
               /\ user_states' = user_states]_vars

\* a run has given the sheet of vehicle 7 its headers and has failed at
\* the sheet of generator 5: vehicle 7 is not in the list, and the last
\* reply to the user is still the one of /start
RefreshFailureWitness ==
    /\ sheets[A7].exists
    /\ sheets[A7].header
    /\ sheets[G5].exists
    /\ ~sheets[G5].header
    /\ supported_cars = <<N5>>
    /\ supported_generators = <<N7>>
    /\ sent # <<>>


\* the replies of the details step that tell the outcome of the parse: a
\* format error, or what the transaction handler says of the parsed
\* fields
ParseOutcomes ==
    {"format_error", "number_format_error", "refuel_format_error",
     "generator_format_error", "photo_required", "unknown_car",
     "unknown_generator", "volume_error", "price_error", "mileage_error",
     "hours_error", "save_error"} \cup OkReplies

\* C22: parsing is total.  For every details input of the guided flow (a
\* photo or a document with any caption or with no caption), the details
\* step of each of the three transactions answers with one reply, which
\* is the format error or the answer of the handler to the parsed fields;
\* the parse never raises.
ParsingTotal ==
    \A u \in Users, c \in Captions, att \in {"photo", "document"},
       file_ok \in BOOLEAN :
        (user_states[u].step = "volume" /\ (c = None \/ ~is_cancel(c))) =>
            LET r == PhotoUpdate(Before, u, c, att, file_ok, "none")
            IN  /\ Len(r.out) = 1
                /\ r.out[1].msg \in ParseOutcomes


\* C23: registry membership at write.  Whenever the details step of a
\* transaction changes the rows of a sheet, the asset of the session is
\* in the registry list of its kind in that state; and when the asset is
\* no longer in the list (a refresh has removed it since the identifier
\* step), valid details with a photo are answered by the unknown-asset
\* error with the current list, and no sheet changes.
RegistryMembershipAtWrite ==
    \A u \in Users, fail \in FailPoints :
        LET state == user_states[u]
            list == RegistryOf(state.action)
            known == Member(state.car_number, list)
        IN  state.step = "volume" =>
              /\ \A c \in Captions, att \in {"photo", "document"},
                    file_ok \in BOOLEAN :
                     LET r == PhotoUpdate(Before, u, c, att, file_ok, fail)
                     IN  RowsOf(r.sh) # RowsOf(sheets) => known
              /\ ~known =>
                     LET r == PhotoUpdate(Before, u, ValidDetails(state),
                                          "photo", TRUE, fail)
                     IN  /\ r.sh = sheets
                         /\ r.out =
                                <<[msg |-> IF state.action = "generator"
                                           THEN "unknown_generator"
                                           ELSE "unknown_car",
                                   arg |-> list]>>

\* the identifier step has accepted vehicle 7; its sheet was deleted and
\* the refresh has removed it from the list since
RegistryMembershipWitness ==
    /\ user_states[1] = [action |-> "purchase", step |-> "volume",
                         car_number |-> N7]
    /\ supported_cars = <<N5>>
    /\ ~sheets[A7].exists


\* C25: atomic registry swap.  No step leaves a partly updated registry
\* to the handlers: whenever a step changes the list of the vehicles or
\* the list of the generators, both lists are in the next state what a
\* complete run of the refresh makes of the sheets (the new snapshot);
\* in every other step both lists are the old snapshot.
AtomicRegistrySwap ==
    [][(supported_cars' # supported_cars
           \/ supported_generators' # supported_generators) =>
          /\ supported_cars'
                 = registry_update(supported_cars, load_cars(sheets))
          /\ supported_generators'
                 = registry_update(supported_generators,
                                   load_generators(sheets))]_vars

\* /start has listed the registry after the refresh found the sheets of
\* vehicle 7 and of generator 5
AtomicRegistrySwapWitness ==
    /\ supported_cars = <<N5, N7>>
    /\ supported_generators = <<N7, N5>>
    /\ sent = <<[msg |-> "welcome", arg |-> <<N5, N7, N7, N5>>]>>


\* C26: non-transactional two-step write.  When the call that follows the
\* append (the update of the photo cell) fails for details that a working
\* backend would have recorded, the row is in the sheet of the asset all
\* the same: it is the last row, its data cells are those of the row a
\* working backend records, its photo cell holds the file path instead of
\* the formula, no other row of any sheet has changed, and the reply is
\* the try-again message.
TwoStepWriteLeavesRow ==
    \A u \in Users, c \in Captions, att \in {"photo", "document"},
       file_ok \in BOOLEAN :
        user_states[u].step = "volume" =>
            LET title == SessionSheet(user_states[u])
                ok == PhotoUpdate(Before, u, c, att, file_ok, "none")
                r == PhotoUpdate(Before, u, c, att, file_ok, "cell")
                Last(st) == st.sh[title].rows[Len(st.sh[title].rows)]
            IN  (ok.out # <<>> /\ ok.out[1].msg \in OkReplies) =>
                    /\ AppendsOneRowTo(r, title)
                    /\ Last(r) = [Last(ok) EXCEPT !.photo = FilePath]
                    /\ Last(ok).photo = Formula
                    /\ r.out = <<[msg |-> "save_error", arg |-> <<>>]>>

\* the generator refuel is in the sheet with the file path in its photo
\* cell, and the user was told to try again
TwoStepWriteWitness ==
    /\ sheets[G7].rows = <<[Generator_200_58_255 EXCEPT !.photo = FilePath]>>
    /\ sent = <<[msg |-> "save_error", arg |-> <<>>]>>


\* the queries as commands, <<command, arguments>>
QueryCommands == {ci \in CommandInputs : ci[1] \in {"balance", "generator",
                                                    "history"}}

\* C27: queries do not mutate the store.  A balance, history or generator
\* query, sent as a command or answered in the identifier step of the
\* guided flow, leaves every sheet as it was: no sheet is created and no
\* row (the header row too) is added, also when the sheet of a known
\* identifier is missing or empty.
QueriesLeaveStore ==
    \A u \in Users :
        /\ \A ci \in QueryCommands :
               CommandUpdate(Before, u, ci[1], ci[2], "none").sh = sheets
        /\ (user_states[u].action \in Queries
               /\ user_states[u].step = "car_number") =>
               \A t \in Texts :
                   PlainText(t) => TextUpdate(Before, u, t, "none").sh = sheets


\* C28: absent required field is rejected.  In the details step of a
\* purchase or of a vehicle refuel, a message with one number only
\* ("200": a volume with no price or odometer), sent with a photo, is
\* answered by the format error and no sheet changes.
SingleNumberRejected ==
    \A u \in Users :
        (user_states[u].step = "volume"
            /\ user_states[u].action \in {"purchase", "refuel"}) =>
            LET r == PhotoUpdate(Before, u, T_200, "photo", TRUE, "none")
            IN  /\ r.out = <<[msg |-> "format_error", arg |-> <<>>]>>
                /\ r.sh = sheets


\* ------------------------------------------------ a refuel on a log
\* SpecRefuel: the sheet of vehicle 5 holds a log of up to MaxLog records
\* and user 1 is in the details step of a refuel of vehicle 5; the user
\* sends details with a photo.
InitRefuel ==
    /\ user_states = [u \in Users |->
                         IF u = 1
                         THEN [action |-> "refuel", step |-> "volume",
                               car_number |-> N5]
                         ELSE NoState]
    /\ supported_cars = load_cars(InitSheets)
    /\ supported_generators = load_generators(InitSheets)
    /\ sent = <<>>
    /\ \E log \in Logs(VehicleRecords) :
           sheets = [InitSheets EXCEPT ![A5].rows = log]

NextRefuel ==
    \E c \in {T_200_58, T_0_58, T_abc} :
        Answered(PhotoUpdate(Before, 1, c, "photo", TRUE, "none"))

SpecRefuel == InitRefuel /\ [][NextRefuel]_vars

\* C29: the balance of the refuel reply includes the new row.  When a
\* refuel of 200 l is recorded on a log, the log is the earlier log with
\* the refuel row at its end, and the balance in the reply is the sum of
\* the purchase volumes minus the sum of the refuel volumes of that whole
\* log, the new row included (200 l less than the balance of the earlier
\* log).
RefuelReplyBalance ==
    user_states[1] = [action |-> "refuel", step |-> "volume",
                      car_number |-> N5] =>
        LET log == sheets[A5].rows
            r == PhotoUpdate(Before, 1, T_200_58, "photo", TRUE, "none")
            after == r.sh[A5].rows
        IN  /\ after = Append(log, Refuel_200_58)
            /\ Len(r.out) = 1
            /\ r.out[1].msg = "refuel_ok"
            /\ r.out[1].arg[3] = VolumeTotal(after, "Zakupka")
                                     - VolumeTotal(after, "Zapravka")
            /\ r.out[1].arg[3] = BalanceReport(log)[3] - 20000

\* 200 l purchased and 30 l consumed before: the reply to the refuel of
\* 200 l showed -30 l
RefuelReplyBalanceWitness ==
    /\ sheets[A5].rows
           = <<Purchase_200_58, Refuel_30_125000, Refuel_200_58>>
    /\ user_states[1] = NoState
    /\ sent = <<[msg |-> "refuel_ok", arg |-> <<20000, 58, -3000>>]>>


\* the places of the refuel records of a log
RefuelPlaces(log) == {i \in 1..Len(log) : log[i].op = "Zapravka"}

\* C30: last readings follow the log order.  The last mileage the balance
\* query reports for a vehicle log is the mileage of the refuel record
\* that has no refuel record after it in the log, whatever purchase
\* records follow it and whatever the earlier readings were, and 0 when
\* the log has no refuel record; the last engine hours the generator
\* query reports for a log that is not empty are those of its last
\* record.
LastReadingsFollowLog ==
    LET log == sheets[A5].rows
        glog == sheets[G7].rows
        b == CommandUpdate(Before, 1, "balance", <<N5>>, "none").out
        g == CommandUpdate(Before, 1, "generator", <<N7>>, "none").out
    IN  /\ Len(b) = 1
        /\ b[1].msg = "balance"
        /\ RefuelPlaces(log) = {} => b[1].arg[5] = 0
        /\ \A i \in RefuelPlaces(log) :
               (\A k \in RefuelPlaces(log) : k <= i) =>
                   b[1].arg[5] = log[i].mileage[1]
        /\ glog # <<>> =>
               /\ Len(g) = 1
               /\ g[1].msg = "generator_info"
               /\ g[1].arg[3] = glog[Len(glog)].hours[1]

\* the reading 58 of the last refuel was reported, not the earlier and
\* higher one, with a purchase after the refuel
LastReadingsWitness ==
    /\ sheets[A5].rows
           = <<Refuel_30_125000, Refuel_200_58, Purchase_200_58>>
    /\ sent # <<>>
    /\ sent[1].msg = "balance"
    /\ sent[1].arg[5] = 58


\* the six actions and the two steps of a session
Actions == Transactions \cup Queries

Steps == {"car_number", "volume"}

\* the registry list an action validates its identifier against
RegistryList(action) ==
    IF action \in {"generator", "generator_info"}
    THEN supported_generators ELSE supported_cars

\* C31: sessions are well formed.  In every reachable state a stored
\* session has one of the six actions and one of the two steps; in the
\* details step its action is a transaction and it stores an identifier,
\* in the identifier step it stores none.  A session enters the details
\* step only from the identifier step of the same action, with an
\* identifier that is in the registry list of that action at that moment,
\* and nothing changes it while it stays in the details step, whatever
\* the registry becomes afterwards.
SessionsWellFormed ==
    /\ [](\A u \in Users :
            user_states[u] # NoState =>
                /\ user_states[u].action \in Actions
                /\ user_states[u].step \in Steps
                /\ user_states[u].step = "volume" =>
                       /\ user_states[u].action \in Transactions
                       /\ user_states[u].car_number # None
                /\ user_states[u].step = "car_number" =>
                       user_states[u].car_number = None)
    /\ [][\A u \in Users :
            user_states'[u].step = "volume" =>
                IF user_states[u].step = "volume"
                THEN user_states'[u] = user_states[u]
                ELSE /\ user_states[u].step = "car_number"
                     /\ user_states'[u].action = user_states[u].action
                     /\ Member(user_states'[u].car_number,
                               RegistryList(user_states[u].action))]_vars

\* a refuel session holds vehicle 7, accepted while it was registered, and
\* the registry has lost the vehicle since
SessionsWellFormedWitness ==
    /\ user_states[1] = [action |-> "refuel", step |-> "volume",
                         car_number |-> N7]
    /\ supported_cars = <<N5>>
    /\ supported_generators = <<N7>>


\* C32: the update of the photo cell hits the row just written.  For a
\* transaction that succeeds, the sheets after the whole write differ
\* from the sheets after its append alone (the write stopped before the
\* update of the cell) in one cell only: the photo of the last row of the
\* sheet of the asset, which is the row the transaction appended and
\* which goes from the file path to the formula; the rows that were in
\* that sheet before, whatever their photo cells hold, and the other
\* sheets are as they were before the transaction.
PhotoCellOfNewRow ==
    \A u \in Users, c \in Captions, att \in {"photo", "document"} :
        user_states[u].step = "volume" =>
            LET title == SessionSheet(user_states[u])
                appended == PhotoUpdate(Before, u, c, att, TRUE, "cell").sh
                ok == PhotoUpdate(Before, u, c, att, TRUE, "none")
                n == Len(ok.sh[title].rows)
            IN  (ok.out # <<>> /\ ok.out[1].msg \in OkReplies) =>
                    /\ n = Len(sheets[title].rows) + 1
                    /\ \A i \in 1..(n - 1) :
                           ok.sh[title].rows[i] = sheets[title].rows[i]
                    /\ \A t \in Titles \ {title} :
                           /\ ok.sh[t] = appended[t]
                           /\ ok.sh[t].rows = sheets[t].rows
                    /\ appended[title].rows[n].photo = FilePath
                    /\ ok.sh[title] =
                           [appended[title] EXCEPT !.rows[n].photo = Formula]

\* the generator refuel is the one row of its sheet, with the formula in
\* its photo cell, and the user was told it was recorded
PhotoCellOfNewRowWitness ==
    /\ sheets[G7].rows = <<Generator_200_58_255>>
    /\ sheets[A5].rows = <<>>
    /\ user_states[1] = NoState
    /\ sent # <<>>
    /\ sent[1].msg = "generator_ok"


\* C33: session-neutral events.  A command (start, templates, balance,
\* generator, history, with or without its argument) and the
\* show-templates phrase leave the sessions of all users as they were,
\* so that a user in a session stays in the same action, step and asset;
\* a message of a user with no session whose text is a cancellation
\* token, sent as a text or as the caption of a photo, leaves the
\* sessions as they were and is not answered.
SessionNeutralEvents ==
    \A u \in Users, fail \in FailPoints :
        /\ \A ci \in CommandInputs :
               CommandUpdate(Before, u, ci[1], ci[2], fail).us = user_states
        /\ TextUpdate(Before, u, BTN_TEMPLATES, fail).us = user_states
        /\ user_states[u] = NoState =>
               /\ \A t \in Texts :
                      is_cancel(t) =>
                          /\ TextUpdate(Before, u, t, fail).us = user_states
                          /\ TextUpdate(Before, u, t, fail).out = <<>>
               /\ \A c \in Captions \ {None}, att \in {"photo", "document"} :
                      is_cancel(c) =>
                          LET r == PhotoUpdate(Before, u, c, att, TRUE, fail)
                          IN  /\ r.us = user_states
                              /\ r.out = <<>>


\* C34: details message with no text.  A photo or an image document with
\* no caption, sent in the details step, is answered by the format error
\* with the session kept when the action is the purchase, and by the
\* generic failure message with the session removed when it is the
\* refuel or the generator refuel, whether or not the file can be
\* fetched and whatever the backend does; in the three cases every sheet
\* and every other session is as before.
DetailsWithoutText ==
    \A u \in Users, att \in {"photo", "document"}, file_ok \in BOOLEAN,
       fail \in FailPoints :
        user_states[u].step = "volume" =>
            LET r == PhotoUpdate(Before, u, None, att, file_ok, fail)
            IN  /\ r.sh = sheets
                /\ Len(r.out) = 1
                /\ IF user_states[u].action = "purchase"
                   THEN /\ r.out[1].msg = "format_error"
                        /\ r.us = user_states
                   ELSE /\ user_states[u].action \in {"refuel", "generator"}
                        /\ r.out[1].msg = "step_error"
                        /\ r.us = [user_states EXCEPT ![u] = NoState]

\* the purchase session of vehicle 5 is still there after the format error
DetailsWithoutTextWitness ==
    /\ user_states[1] = [action |-> "purchase", step |-> "volume",
                         car_number |-> N5]
    /\ sent = <<[msg |-> "format_error", arg |-> <<>>]>>
    /\ sheets = InitSheets

====
